---------------------------- MODULE Spec2Model ----------------------------
(***************************************************************************)
(* Peer-coordination layer of the distributed cache:                       *)
(*   - package consistenthash (src/cache/peers.go, lines 53-122): the hash *)
(*     ring Map with New, Add and Get;                                     *)
(*   - package cache (src/unnamed/part_000): HTTPPool with NewHttpPool,    *)
(*     ServeHTTP, Set and PickPeer;                                        *)
(*   - package cache (src/cache/peers.go, lines 1-51): httpGetter.         *)
(*                                                                         *)
(* Representation.  A Go string is the sequence of its characters, each a  *)
(* one-character TLA+ string, so "" is << >> and + is \o.  TLC integers    *)
(* are 32-bit signed, so a uint32 v (a hash, a ring point) is carried as   *)
(* v - 2^31: the shift keeps the order and the equality of points, which   *)
(* is all that Add and Get use (Go's int is 64 bits wide on the build      *)
(* targets, so int(uint32) keeps the value).                               *)
(***************************************************************************)
EXTENDS Integers, Sequences, FiniteSets, TLC

VARIABLES
    m,        \* SpecRing: the consistenthash.Map under test
    added,    \* SpecRing: every node identifier passed to Add so far, in order
    got,      \* SpecRing: the Get call, [key, node], if it was the last operation
    rebuilt   \* SpecRing: a second ring built anew without one node, if that
              \* was the last operation

VARIABLES
    self,         \* HTTPPool.self
    peers,        \* HTTPPool.peers: Nil or a pointer to a Map
    httpGetters,  \* HTTPPool.httpGetters: the nil map or a map
    mu,           \* HTTPPool.mu: Unlocked or the thread holding it
    pc,           \* per thread: where it stands in Set or PickPeer
    arg,          \* per thread: the argument of its call (peers... or key)
    rangeIdx,     \* per thread: Set's position in its range loop
    peer,         \* per thread: PickPeer's local variable peer
    res,          \* per thread: what its PickPeer call is about to return
    sets,         \* history: the number of Set calls so far
    gen,          \* history, per thread: the number of its Set call
    ringGen,      \* history: the Set call that installed peers; is its Add done
    mapGen,       \* history: the Set call that installed httpGetters
    lastSet,      \* history: the argument of the last Set that took the lock
    seen          \* history, per thread: the generations its PickPeer read

VARIABLES
    registry,     \* the group registry: the names GetGroup knows
    spc,          \* ServeHTTP: where the handler stands
    path,         \* ServeHTTP: r.URL.Path of the request being served
    frame,        \* ServeHTTP: its locals parts, groupName, key, group, view, body
    resp,         \* ServeHTTP: what has been written to w
    trace,        \* history of the request: which steps it took
    crashed       \* history: an earlier request ended in a panic

VARIABLES
    views,        \* the cluster: the peer list each node was last Set with
    lookup        \* the cluster: the lookup under way and where it has been

VARIABLES
    rpc           \* httpGetter.Get: the call under way, its locals and result

ringVars == <<m, added, got, rebuilt>>

clientVars == <<rpc>>

clusterVars == <<views, lookup>>

serverVars == <<registry, spc, path, frame, resp, trace, crashed>>

poolVars == <<self, peers, httpGetters, mu>>

callVars == <<pc, arg, rangeIdx, peer, res>>

histVars == <<sets, gen, ringGen, mapGen, lastSet, seen>>

coordVars == <<poolVars, callVars, histVars>>

vars == <<ringVars, coordVars, serverVars, clusterVars, clientVars>>

-----------------------------------------------------------------------------
(* Bounds of the model *)

\* most points a ring under test holds (SpecRing)
MaxPoints == 4

\* longest peer list given to Set, and the most Set calls of a run (Spec)
MaxPeers == 2
MaxSets == 2

\* the threads calling Set and PickPeer
Threads == {1, 2}

\* the node identifiers given to Set; self may be any of Nodes
PeerIds == {<<"A">>, <<"B">>}

\* the keys given to PickPeer
PickKeys == {<<"k">>, <<"x">>}

\* node identifiers: opaque non-empty strings
Nodes == {<<"A">>, <<"B">>, <<"C">>}

\* the keys looked up in the ring under test, besides the virtual node names
LookupKeys == {<<"k">>}

\* uint32 0, 2^31 and 2^32 - 1, as carried (shifted by -2^31)
HashVals == {-2147483647 - 1, 0, 2147483647}

-----------------------------------------------------------------------------
(* Strings *)

Digits == <<"0", "1", "2", "3", "4", "5", "6", "7", "8", "9">>

\* strconv.Itoa for i >= 0: the decimal digits of i
RECURSIVE Itoa(_)
Itoa(i) ==
    IF i < 10 THEN <<Digits[i + 1]>>
    ELSE Itoa(i \div 10) \o <<Digits[(i % 10) + 1]>>

\* printable ASCII, code 32 first (the quote characters and the backslash,
\* which no string of the model holds, by name)
Printable ==
    <<" ", "!", "dquote", "#", "$", "%", "&", "'", "(", ")", "*", "+", ",", "-",
      ".", "/", "0", "1", "2", "3", "4", "5", "6", "7", "8", "9", ":", ";",
      "<", "=", ">", "?", "@", "A", "B", "C", "D", "E", "F", "G", "H", "I",
      "J", "K", "L", "M", "N", "O", "P", "Q", "R", "S", "T", "U", "V", "W",
      "X", "Y", "Z", "[", "bslash", "]", "^", "_", "bquote", "a", "b", "c", "d", "e",
      "f", "g", "h", "i", "j", "k", "l", "m", "n", "o", "p", "q", "r", "s",
      "t", "u", "v", "w", "x", "y", "z", "{", "|", "}", "~">>

\* []byte(s)[i]: the byte of a character
Ord(c) == 31 + (CHOOSE i \in 1..Len(Printable) : Printable[i] = c)

-----------------------------------------------------------------------------
(* crc32.ChecksumIEEE, the default Hash of New.  A 32-bit word is the pair *)
(* <<high 16 bits, low 16 bits>>.                                          *)

RECURSIVE Xor(_, _, _)
Xor(a, b, n) ==
    IF n = 0 THEN 0
    ELSE (((a % 2) + (b % 2)) % 2) + 2 * Xor(a \div 2, b \div 2, n - 1)

\* the reversed IEEE polynomial 0xEDB88320
PolyHi == 60856
PolyLo == 33568

\* one bit of the CRC register: shift right, and xor the polynomial in when a 1
\* falls out
CrcShift(w) ==
    LET hi == w[1] \div 2
        lo == (w[2] \div 2) + ((w[1] % 2) * 32768)
    IN  IF w[2] % 2 = 1 THEN <<Xor(hi, PolyHi, 16), Xor(lo, PolyLo, 16)>>
        ELSE <<hi, lo>>

RECURSIVE CrcBits(_, _)
CrcBits(w, n) == IF n = 0 THEN w ELSE CrcBits(CrcShift(w), n - 1)

RECURSIVE CrcUpdate(_, _, _)
CrcUpdate(w, data, i) ==
    IF i > Len(data) THEN w
    ELSE CrcUpdate(CrcBits(<<w[1], Xor(w[2], Ord(data[i]), 16)>>, 8), data, i + 1)

\* the checksum as the pair of its halves
ChecksumWord(data) ==
    LET w == CrcUpdate(<<65535, 65535>>, data, 1)
    IN  <<65535 - w[1], 65535 - w[2]>>

\* the checksum as carried: value - 2^31
ChecksumIEEE(data) ==
    LET w == ChecksumWord(data) IN ((w[1] - 32768) * 65536) + w[2]

-----------------------------------------------------------------------------
(* package consistenthash *)

\* map[int]string: a function on the points it holds; a missing key reads ""
EmptyMap == [p \in {} |-> <<>>]

MapGet(hm, p) == IF p \in DOMAIN hm THEN hm[p] ELSE <<>>

\* a map write that keeps the entry a key already has
MapPutIfAbsent(hm, p, v) == hm @@ (p :> v)

\* hm[p] = v
MapPut(hm, p, v) == (p :> v) @@ hm

\* the name of virtual node i of a real node: strconv.Itoa(i) + key
VirtualName(i, key) == Itoa(i) \o key

defaultBasePath == <<"/", "_", "c", "a", "c", "h", "e", "/">>

defaultReplicate == 50

\* the strings the coordinator's ring hashes: the virtual node names of the
\* nodes and the keys given to PickPeer
HashedStrings ==
    {VirtualName(i, n) : i \in 0..(defaultReplicate - 1), n \in PeerIds}
        \cup PickKeys

\* a nil Hash
NilFn == [s \in {} |-> 0]

\* crc32.ChecksumIEEE on the strings the coordinator's ring hashes
DefaultHash == [s \in HashedStrings |-> ChecksumIEEE(s)]

\* type Map struct { hash; replicates; keys; hashMap }.  hash is the Hash the
\* ring was built with, as its values on the strings it is applied to.
New(replicats, fn) ==
    [replicates |-> replicats,
     hash       |-> IF fn = NilFn THEN DefaultHash ELSE fn,
     keys       |-> <<>>,
     hashMap    |-> EmptyMap]

\* the points left in the order they were appended
NoSort(s) == s

\* sort.Ints: the ascending permutation of s
SortInts(s) == SortSeq(s, LAMBDA a, b : a < b)

\* the inner loop of Add: for i := 0; i < m.replicates; i++
RECURSIVE AddReplicas(_, _, _)
AddReplicas(mp, key, i) ==
    IF i < mp.replicates
    THEN LET hash == mp.hash[VirtualName(i, key)]
         IN  AddReplicas([mp EXCEPT !.keys = Append(@, hash),
                                    !.hashMap = MapPut(@, hash, key)],
                         key, i + 1)
    ELSE mp

\* the outer loop of Add: for _, key := range keys
RECURSIVE AddKeys(_, _)
AddKeys(mp, keys) ==
    IF keys = <<>> THEN mp
    ELSE AddKeys(AddReplicas(mp, Head(keys), 0), Tail(keys))

\* an Add that leaves out the identifiers the ring already holds
RECURSIVE AddNewKeys(_, _)
AddNewKeys(mp, keys) ==
    IF keys = <<>> THEN mp
    ELSE IF \E p \in DOMAIN mp.hashMap : mp.hashMap[p] = Head(keys)
         THEN AddNewKeys(mp, Tail(keys))
         ELSE AddNewKeys(AddReplicas(mp, Head(keys), 0), Tail(keys))

AddOnce(mp, keys) ==
    LET filled == AddNewKeys(mp, keys)
    IN  [filled EXCEPT !.keys = SortInts(@)]

\* func (m *Map) Add(keys ...string)
Add(mp, keys) ==
    LET filled == AddKeys(mp, keys)
    IN  [filled EXCEPT !.keys = SortInts(@)]

\* sort.Search(n, f) with f(i) = keys[i] >= hash: the least index in [0, n]
\* from which f holds, by bisection (indices from 0, as in Go)
RECURSIVE SearchLoop(_, _, _, _)
SearchLoop(keys, hash, i, j) ==
    IF i < j
    THEN LET h == (i + j) \div 2
         IN  IF ~(keys[h + 1] >= hash)
             THEN SearchLoop(keys, hash, h + 1, j)
             ELSE SearchLoop(keys, hash, i, h)
    ELSE i

Search(keys, hash) == SearchLoop(keys, hash, 0, Len(keys))

\* Get with the comparison keys[i] > hash: a key that hashes onto a point is
\* handed to the next point
RECURSIVE SearchPastLoop(_, _, _, _)
SearchPastLoop(keys, hash, i, j) ==
    IF i < j
    THEN LET h == (i + j) \div 2
         IN  IF ~(keys[h + 1] > hash)
             THEN SearchPastLoop(keys, hash, h + 1, j)
             ELSE SearchPastLoop(keys, hash, i, h)
    ELSE i

GetPastEqual(mp, key) ==
    IF Len(mp.keys) = 0 THEN <<>>
    ELSE LET hash == mp.hash[key]
             idx  == SearchPastLoop(mp.keys, hash, 0, Len(mp.keys))
         IN  MapGet(mp.hashMap, mp.keys[(idx % Len(mp.keys)) + 1])

\* Get without the wrap-around: a key past the last point finds no node
GetNoWrap(mp, key) ==
    IF Len(mp.keys) = 0 THEN <<>>
    ELSE LET hash == mp.hash[key]
             idx  == Search(mp.keys, hash)
         IN  IF idx = Len(mp.keys) THEN <<>>
             ELSE MapGet(mp.hashMap, mp.keys[idx + 1])

\* Get by hash modulo the number of points, not by position on the ring
GetModN(mp, key) ==
    IF Len(mp.keys) = 0 THEN <<>>
    ELSE LET hash == mp.hash[key]
         IN  MapGet(mp.hashMap, mp.keys[(hash % Len(mp.keys)) + 1])

\* func (m *Map) Get(key string) string
Get(mp, key) ==
    IF Len(mp.keys) = 0 THEN <<>>
    ELSE LET hash == mp.hash[key]
             idx  == Search(mp.keys, hash)
         IN  MapGet(mp.hashMap, mp.keys[(idx % Len(mp.keys)) + 1])

\* a Get that cuts the point list down to the points from the one it found
GetReslices(mp, key) ==
    IF Len(mp.keys) = 0 THEN mp
    ELSE LET idx == Search(mp.keys, mp.hash[key]) % Len(mp.keys)
         IN  [mp EXCEPT !.keys = SubSeq(@, idx + 1, Len(@))]

\* the Map after m.Get(key): Get reads m.keys and m.hashMap and assigns to no
\* field of m
AfterGet(mp, key) == mp

-----------------------------------------------------------------------------
(* SpecRing: a ring built with a caller-supplied Hash and driven by Add    *)
(* and Get.  The Hash is an arbitrary fixed function into HashVals; its    *)
(* value on a string is drawn when the string is first hashed and kept.    *)

NoGet == [key |-> <<>>, node |-> <<>>, called |-> FALSE]

RECURSIVE NamesOf(_, _)
NamesOf(keys, replicas) ==
    IF keys = <<>> THEN {}
    ELSE {VirtualName(i, Head(keys)) : i \in 0..(replicas - 1)}
         \cup NamesOf(Tail(keys), replicas)

\* the Hash functions that agree with fn and are defined on names as well
Reveal(fn, names) ==
    {fn @@ g : g \in [names \ DOMAIN fn -> HashVals]}

\* argument lists: zero to n of the identifiers ids, in any order, repeats
\* included
RECURSIVE ListsUpTo(_, _)
ListsUpTo(ids, n) ==
    IF n = 0 THEN {<<>>}
    ELSE LET shorter == ListsUpTo(ids, n - 1)
         IN  shorter \cup {Append(l, x) : l \in {s \in shorter : Len(s) = n - 1},
                                          x \in ids}

NoRebuild == [built |-> FALSE]

Range(s) == {s[i] : i \in 1..Len(s)}

\* the list without every occurrence of r, the rest in their order
RECURSIVE Without(_, _)
Without(s, r) ==
    IF s = <<>> THEN <<>>
    ELSE IF Head(s) = r THEN Without(Tail(s), r)
    ELSE <<Head(s)>> \o Without(Tail(s), r)

\* consistenthash.New(replicas, fn) with replicas >= 1 and fn non-nil
RingInit ==
    /\ \E r \in 1..MaxPoints, fn \in [LookupKeys -> HashVals] : m = New(r, fn)
    /\ added = <<>>
    /\ got = NoGet
    /\ rebuilt = NoRebuild

\* m.Add(keys...)
RingAdd ==
    \E keys \in ListsUpTo(Nodes, (MaxPoints - Len(m.keys)) \div m.replicates) :
      \E fn \in Reveal(m.hash, NamesOf(keys, m.replicates)) :
        /\ m' = Add([m EXCEPT !.hash = fn], keys)
        /\ added' = added \o keys
        /\ got' = NoGet
        /\ rebuilt' = NoRebuild
        /\ UNCHANGED <<coordVars, serverVars, clusterVars, clientVars>>

\* m.Get(key), for a key whose hash is known
RingGet ==
    \E key \in DOMAIN m.hash :
        /\ got' = [key |-> key, node |-> Get(m, key), called |-> TRUE]
        /\ m' = AfterGet(m, key)
        /\ rebuilt' = NoRebuild
        /\ UNCHANGED added
        /\ UNCHANGED <<coordVars, serverVars, clusterVars, clientVars>>

\* membership change by rebuilding: a new ring with the same Hash and replica
\* count, given the same node identifiers in the same order, r left out
RingRebuild ==
    \E r \in Range(added) :
        /\ rebuilt' = [built |-> TRUE, removed |-> r,
                       ring |-> Add(New(m.replicates, m.hash), Without(added, r))]
        /\ got' = NoGet
        /\ UNCHANGED <<m, added>>
        /\ UNCHANGED <<coordVars, serverVars, clusterVars, clientVars>>

-----------------------------------------------------------------------------
(* Claims on the ring *)

\* the hash of a key, as Get computes it
HashOf(key) == m.hash[key]

\* the keys whose hash is known: the lookup keys and the virtual node names
KnownKeys == DOMAIN m.hash

Points == Range(m.keys)

Min(S) == CHOOSE x \in S : \A y \in S : x <= y

\* the reference lookup: the smallest point >= h, or the smallest point of all
RefPoint(h) ==
    LET above == {p \in Points : p >= h}
    IN  IF above # {} THEN Min(above) ELSE Min(Points)

\* C1: on every ring built by Add calls and for every key, Get returns the
\* node bound to the smallest point >= hash(key), and the node bound to the
\* smallest point of the ring when no point is >= hash(key).
C1_LookupMatchesReference ==
    /\ \A key \in KnownKeys :
          Points # {} => Get(m, key) = m.hashMap[RefPoint(HashOf(key))]
    /\ got.called /\ Points # {} =>
          got.node = m.hashMap[RefPoint(HashOf(got.key))]

\* C1 witness: a Get whose key hashes past the last of several points and
\* is answered by the owner of the first point.
C1_Witness ==
    /\ got.called
    /\ Cardinality(Points) >= 2
    /\ \A p \in Points : p < HashOf(got.key)
    /\ got.node = m.hashMap[m.keys[1]]
    /\ got.node # m.hashMap[m.keys[Len(m.keys)]]

\* C2: once a node has been added (replica count >= 1, identifiers non-empty),
\* Get returns for every key one of the identifiers passed to Add, never "".
C2_RingCoverage ==
    /\ \A key \in KnownKeys :
          Len(added) > 0 => Get(m, key) \in Range(added) /\ Get(m, key) # <<>>
    /\ got.called /\ Len(added) > 0 => got.node \in Range(added) /\ got.node # <<>>

\* C2 witness: a Get on a ring of two nodes answered with one of them.
C2_Witness ==
    /\ got.called
    /\ Cardinality(Range(added)) >= 2
    /\ got.node \in Range(added)

\* C3: when a ring is rebuilt without node r, every key that resolved to a
\* node other than r resolves to the same node on the rebuilt ring.
C3_MinimalDisruption ==
    rebuilt.built =>
        \A key \in KnownKeys :
            Get(m, key) # rebuilt.removed => Get(rebuilt.ring, key) = Get(m, key)

\* C3 witness: three nodes, one removed; a key of another node keeps its
\* owner while a key of the removed node is reassigned.
C3_Witness ==
    /\ rebuilt.built
    /\ Cardinality(Range(added)) = 3
    /\ \E k1, k2 \in KnownKeys :
          /\ Get(m, k1) # rebuilt.removed
          /\ Get(rebuilt.ring, k1) = Get(m, k1)
          /\ Get(m, k2) = rebuilt.removed
          /\ Get(rebuilt.ring, k2) # rebuilt.removed

\* s is in ascending order
Ascending(s) == \A i \in 1..(Len(s) - 1) : s[i] <= s[i + 1]

\* the points of the added identifiers in the order Add appended them
RECURSIVE PointsOf(_, _)
PointsOf(keys, i) ==
    IF keys = <<>> THEN <<>>
    ELSE IF i < m.replicates
         THEN <<m.hash[VirtualName(i, Head(keys))]>> \o PointsOf(keys, i + 1)
         ELSE PointsOf(Tail(keys), 0)

\* C14: after every Add call the point list is in ascending order and every
\* point of the list has an entry in the point-to-node mapping; the point
\* list holds one point for every replica of every identifier given to Add.
C14_SortedAndMapped ==
    /\ Ascending(m.keys)
    /\ \A i \in 1..Len(m.keys) : m.keys[i] \in DOMAIN m.hashMap
    /\ Len(m.keys) = Len(added) * m.replicates
    /\ rebuilt.built =>
          /\ Ascending(rebuilt.ring.keys)
          /\ \A i \in 1..Len(rebuilt.ring.keys) :
                rebuilt.ring.keys[i] \in DOMAIN rebuilt.ring.hashMap

\* a ring after Add calls that named one node twice and another once, with
\* two points that collide, whose points were appended out of order
C14_Witness ==
    /\ Len(added) = 3
    /\ Cardinality(Range(added)) = 2
    /\ Cardinality(Points) = 2
    /\ ~Ascending(PointsOf(added, 0))

\* the hash values, among those of the known keys, that ring mp resolves to n
OwnedHashes(mp, n) ==
    {mp.hash[k] : k \in {x \in DOMAIN mp.hash : Get(mp, x) = n}}

\* the points of node n: the hashes of its virtual node names
PointsOfNode(n) == {m.hash[VirtualName(i, n)] : i \in 0..(m.replicates - 1)}

\* this step is an Add of the one identifier n, which the ring already holds
\* beside another one
AddsAgain(n) ==
    /\ n \in Range(added)
    /\ Cardinality(Range(added)) >= 2
    /\ added' = Append(added, n)

\* a point of n is also a point of another node of the ring
SharesPoint(n) ==
    \E o \in Range(added) \ {n} : PointsOfNode(n) \cap PointsOfNode(o) # {}

\* C16 as stated: an Add of an identifier the ring already holds, beside
\* another one, is not deduplicated and makes the set of hash values Get
\* resolves to that node larger than it was.
C16_RepeatedAddInflates ==
    [][\A n \in Nodes :
         AddsAgain(n) =>
            /\ Len(m'.keys) = Len(m.keys) + m.replicates
            /\ OwnedHashes(m, n) \subseteq OwnedHashes(m', n)
            /\ OwnedHashes(m, n) # OwnedHashes(m', n)]_vars

\* C16 as the code has it: an Add of an identifier the ring already holds is
\* not deduplicated, it appends the node's points once more and adds no new
\* point value; the set of hash values Get resolves to that node never gets
\* smaller, and unless a point of the node coincides with a point of another
\* node every key resolves to the node it resolved to before.
C16_RepeatedAddDuplicates ==
    [][\A n \in Nodes :
         AddsAgain(n) =>
            /\ Len(m'.keys) = Len(m.keys) + m.replicates
            /\ Range(m'.keys) = Range(m.keys)
            /\ OwnedHashes(m, n) \subseteq OwnedHashes(m', n)
            /\ ~SharesPoint(n) =>
                  \A k \in DOMAIN m.hash : Get(m', k) = Get(m, k)]_vars

\* a ring of two nodes with distinct points to which the first node was
\* added again: its point is twice in the list
C16_Witness ==
    /\ Len(added) = 3 /\ added[3] = added[1] /\ added[2] # added[1]
    /\ m.replicates = 1
    /\ Len(m.keys) = 3 /\ Cardinality(Points) = 2

\* the virtual node names of the added nodes, each with its node
VirtualNodes ==
    {<<VirtualName(i, n), n>> : i \in 0..(m.replicates - 1), n \in Range(added)}

\* the node that was bound last to point p: the last identifier given to Add
\* that has p among its points
LastBound(p) ==
    LET j == CHOOSE j \in 1..Len(added) :
                 /\ p \in PointsOfNode(added[j])
                 /\ \A l \in (j + 1)..Len(added) : p \notin PointsOfNode(added[l])
    IN  added[j]

\* C18 as stated: for every added node n and every i below the replica
\* count, Get of stringify(i) concatenated with n returns n, also when points
\* of distinct nodes coincide.
C18_VirtualPointResolves ==
    /\ \A v \in VirtualNodes : Get(m, v[1]) = v[2]
    /\ got.called =>
          \A v \in VirtualNodes : got.key = v[1] => got.node = v[2]

\* C18 as the code has it: Get of stringify(i) concatenated with n returns
\* the node that was bound last to the point of that string; that node is n
\* unless the point is also a point of another added node.
C18_VirtualPointResolvesToLastBound ==
    /\ \A v \in VirtualNodes :
          /\ Get(m, v[1]) = LastBound(m.hash[v[1]])
          /\ ~SharesPoint(v[2]) => Get(m, v[1]) = v[2]
    /\ got.called =>
          \A v \in VirtualNodes :
             got.key = v[1] /\ ~SharesPoint(v[2]) => got.node = v[2]

\* nodes A and B were added, a point of A is also a point of B, and Get of
\* A's virtual node name has returned B
C18_Witness ==
    /\ added = <<<<"A">>, <<"B">>>>
    /\ got.called
    /\ got.key = VirtualName(0, <<"A">>)
    /\ got.node = <<"B">>
    /\ Cardinality(Points) < Len(m.keys)

-----------------------------------------------------------------------------
(* package cache: HTTPPool, the routing face *)

\* a nil pointer; a pointer is the one-element sequence of what it points to
Nil == <<>>

Ptr(v) == <<v>>

Deref(p) == p[1]

\* map[string]*httpGetter: the nil map, or a map
NilGetters == [isNil |-> TRUE, entries |-> EmptyMap]

\* make(map[string]*httpGetter, n)
MakeGetters == [isNil |-> FALSE, entries |-> EmptyMap]

\* a Peer Client whose base address lacks the path prefix
BareGetter(node, basePath) == Ptr([baseURL |-> node])

\* &httpGetter{baseURL: peer + p.basePath}
NewGetter(node, basePath) == Ptr([baseURL |-> node \o basePath])

\* p.httpGetters[node]: a missing key, or the nil map, reads nil
GetterOf(getters, node) ==
    IF node \in DOMAIN getters.entries THEN getters.entries[node] ELSE Nil

Unlocked == 0

\* a lock that never waits
NeverWaits == TRUE

\* p.mu.Lock() returns once the mutex is free
CanLock == mu = Unlocked

\* an Unlock that leaves the mutex with its holder
StaysLocked(t) == t

\* p.mu.Unlock(): the mutex is free
Released(t) == Unlocked

\* what PickPeer returns; panicked: the call ended in a run-time panic instead
NoResult == [done |-> FALSE, getter |-> Nil, ok |-> FALSE, panicked |-> FALSE]

NothingSeen == [ring |-> 0, ringFull |-> FALSE, map |-> 0, readMap |-> FALSE]

\* the peer lists given to Set
PeerLists == ListsUpTo(PeerIds, MaxPeers)

\* NewHttpPool(self): no ring, no client map
CoordInit ==
    /\ self \in Nodes
    /\ peers = Nil
    /\ httpGetters = NilGetters
    /\ mu = Unlocked
    /\ pc = [t \in Threads |-> "idle"]
    /\ arg = [t \in Threads |-> <<>>]
    /\ rangeIdx = [t \in Threads |-> 0]
    /\ peer = [t \in Threads |-> <<>>]
    /\ res = [t \in Threads |-> NoResult]
    /\ sets = 0
    /\ gen = [t \in Threads |-> 0]
    /\ ringGen = [id |-> 0, full |-> FALSE]
    /\ mapGen = 0
    /\ lastSet = <<>>
    /\ seen = [t \in Threads |-> NothingSeen]

\* a thread calls p.Set(peers...)
SetCall(t) ==
    /\ pc[t] = "idle"
    /\ sets < MaxSets
    /\ \E list \in PeerLists : arg' = [arg EXCEPT ![t] = list]
    /\ sets' = sets + 1
    /\ gen' = [gen EXCEPT ![t] = sets + 1]
    /\ pc' = [pc EXCEPT ![t] = "SetLock"]
    /\ UNCHANGED <<poolVars, rangeIdx, peer, res, ringGen, mapGen, lastSet, seen>>
    /\ UNCHANGED <<ringVars, serverVars, clusterVars, clientVars>>

\* p.mu.Lock(); defer p.mu.Unlock()
SetLock(t) ==
    /\ pc[t] = "SetLock"
    /\ CanLock
    /\ mu' = t
    /\ lastSet' = arg[t]
    /\ pc' = [pc EXCEPT ![t] = "SetNew"]
    /\ UNCHANGED <<self, peers, httpGetters, arg, rangeIdx, peer, res, sets, gen,
                   ringGen, mapGen, seen>>
    /\ UNCHANGED <<ringVars, serverVars, clusterVars, clientVars>>

\* Set keeping the ring it finds: the new nodes are added to the old ones
KeepRing(old) == IF old = Nil THEN Ptr(New(defaultReplicate, NilFn)) ELSE old

\* the ring Set installs: consistenthash.New(defaultReplicate, nil)
SetRing(old) == Ptr(New(defaultReplicate, NilFn))

\* p.peers = consistenthash.New(defaultReplicate, nil)
SetNew(t) ==
    /\ pc[t] = "SetNew"
    /\ peers' = SetRing(peers)
    /\ ringGen' = [id |-> gen[t], full |-> FALSE]
    /\ pc' = [pc EXCEPT ![t] = "SetAdd"]
    /\ UNCHANGED <<self, httpGetters, mu, arg, rangeIdx, peer, res, sets, gen,
                   mapGen, lastSet, seen>>
    /\ UNCHANGED <<ringVars, serverVars, clusterVars, clientVars>>

\* p.peers.Add(peers...)
SetAdd(t) ==
    /\ pc[t] = "SetAdd"
    /\ peers' = Ptr(Add(Deref(peers), arg[t]))
    /\ ringGen' = [ringGen EXCEPT !.full = TRUE]
    /\ pc' = [pc EXCEPT ![t] = "SetMake"]
    /\ UNCHANGED <<self, httpGetters, mu, arg, rangeIdx, peer, res, sets, gen,
                   mapGen, lastSet, seen>>
    /\ UNCHANGED <<ringVars, serverVars, clusterVars, clientVars>>

\* p.httpGetters = make(map[string]*httpGetter, len(peers))
SetMake(t) ==
    /\ pc[t] = "SetMake"
    /\ httpGetters' = MakeGetters
    /\ mapGen' = gen[t]
    /\ rangeIdx' = [rangeIdx EXCEPT ![t] = 1]
    /\ pc' = [pc EXCEPT ![t] = "SetPut"]
    /\ UNCHANGED <<self, peers, mu, arg, peer, res, sets, gen, ringGen,
                   lastSet, seen>>
    /\ UNCHANGED <<ringVars, serverVars, clusterVars, clientVars>>

\* for _, peer := range peers { p.httpGetters[peer] = &httpGetter{...} }
SetPut(t) ==
    /\ pc[t] = "SetPut"
    /\ rangeIdx[t] <= Len(arg[t])
    /\ httpGetters' =
         [httpGetters EXCEPT
            !.entries = MapPut(@, arg[t][rangeIdx[t]],
                               NewGetter(arg[t][rangeIdx[t]], defaultBasePath))]
    /\ rangeIdx' = [rangeIdx EXCEPT ![t] = @ + 1]
    /\ UNCHANGED <<self, peers, mu, pc, arg, peer, res, histVars>>
    /\ UNCHANGED <<ringVars, serverVars, clusterVars, clientVars>>

\* Set returns: the deferred p.mu.Unlock()
SetUnlock(t) ==
    /\ pc[t] = "SetPut"
    /\ rangeIdx[t] > Len(arg[t])
    /\ mu' = Released(t)
    /\ pc' = [pc EXCEPT ![t] = "idle"]
    /\ arg' = [arg EXCEPT ![t] = <<>>]
    /\ rangeIdx' = [rangeIdx EXCEPT ![t] = 0]
    /\ gen' = [gen EXCEPT ![t] = 0]
    /\ UNCHANGED <<self, peers, httpGetters, peer, res, sets, ringGen, mapGen,
                   lastSet, seen>>
    /\ UNCHANGED <<ringVars, serverVars, clusterVars, clientVars>>

\* a thread calls p.PickPeer(key)
PickCall(t) ==
    /\ pc[t] = "idle"
    /\ \E key \in PickKeys : arg' = [arg EXCEPT ![t] = key]
    /\ pc' = [pc EXCEPT ![t] = "PickLock"]
    /\ UNCHANGED <<poolVars, rangeIdx, peer, res, histVars>>
    /\ UNCHANGED <<ringVars, serverVars, clusterVars, clientVars>>

\* p.mu.Lock(); defer p.mu.Unlock()
PickLock(t) ==
    /\ pc[t] = "PickLock"
    /\ CanLock
    /\ mu' = t
    /\ pc' = [pc EXCEPT ![t] = "PickGet"]
    /\ UNCHANGED <<self, peers, httpGetters, arg, rangeIdx, peer, res, histVars>>
    /\ UNCHANGED <<ringVars, serverVars, clusterVars, clientVars>>

\* peer := p.peers.Get(key): Get reads m.keys through its receiver, so on the
\* nil p.peers of a coordinator never given peers the call panics (nil
\* pointer dereference)
PickGet(t) ==
    /\ pc[t] = "PickGet"
    /\ IF peers = Nil
       THEN /\ res' = [res EXCEPT ![t] = [NoResult EXCEPT !.panicked = TRUE]]
            /\ pc' = [pc EXCEPT ![t] = "PickPanic"]
            /\ UNCHANGED <<peers, peer, seen>>
       ELSE /\ peer' = [peer EXCEPT ![t] = Get(Deref(peers), arg[t])]
            /\ peers' = Ptr(AfterGet(Deref(peers), arg[t]))
            /\ seen' = [seen EXCEPT ![t].ring = ringGen.id,
                                    ![t].ringFull = ringGen.full]
            /\ pc' = [pc EXCEPT ![t] = "PickTest"]
            /\ UNCHANGED res
    /\ UNCHANGED <<self, httpGetters, mu, arg, rangeIdx, sets, gen, ringGen,
                   mapGen, lastSet>>
    /\ UNCHANGED <<ringVars, serverVars, clusterVars, clientVars>>

\* the test without its second half
IsNamed(node, me) == node # <<>>

\* the test of PickPeer: peer != "" && peer != p.self
IsRemote(node, me) == node # <<>> /\ node # me

\* if ... { return p.httpGetters[peer], true }; return nil, false
PickTest(t) ==
    /\ pc[t] = "PickTest"
    /\ IF IsRemote(peer[t], self)
       THEN /\ res' = [res EXCEPT ![t] =
                         [done |-> TRUE, getter |-> GetterOf(httpGetters, peer[t]),
                          ok |-> TRUE, panicked |-> FALSE]]
            /\ seen' = [seen EXCEPT ![t].map = mapGen, ![t].readMap = TRUE]
       ELSE /\ res' = [res EXCEPT ![t] =
                         [done |-> TRUE, getter |-> Nil, ok |-> FALSE,
                          panicked |-> FALSE]]
            /\ UNCHANGED seen
    /\ pc' = [pc EXCEPT ![t] = "PickReturn"]
    /\ UNCHANGED <<poolVars, arg, rangeIdx, peer, sets, gen, ringGen, mapGen, lastSet>>
    /\ UNCHANGED <<ringVars, serverVars, clusterVars, clientVars>>

\* an Unlock written before the return statement: a panic skips it
UnlockOnReturn(stage) == stage = "PickReturn"

\* defer p.mu.Unlock() runs when PickPeer returns and when it panics
UnlockRuns(stage) == stage \in {"PickReturn", "PickPanic"}

\* PickPeer returns, or unwinds from the panic: the deferred p.mu.Unlock()
PickUnlock(t) ==
    /\ pc[t] \in {"PickReturn", "PickPanic"}
    /\ mu' = IF UnlockRuns(pc[t]) THEN Released(t) ELSE mu
    /\ pc' = [pc EXCEPT ![t] = IF res[t].ok THEN "Picked" ELSE "idle"]
    /\ arg' = [arg EXCEPT ![t] = <<>>]
    /\ peer' = [peer EXCEPT ![t] = <<>>]
    /\ res' = [res EXCEPT ![t] = IF res[t].ok THEN @ ELSE NoResult]
    /\ seen' = [seen EXCEPT ![t] = NothingSeen]
    /\ UNCHANGED <<self, peers, httpGetters, rangeIdx, sets, gen, ringGen,
                   mapGen, lastSet>>
    /\ UNCHANGED <<ringVars, serverVars, clusterVars, clientVars>>

\* the caller of PickPeer uses the Peer Client it was given: peer.Get(in, out),
\* a network call
PeerGetCall(t) ==
    /\ pc[t] = "Picked"
    /\ pc' = [pc EXCEPT ![t] = "PeerGet"]
    /\ UNCHANGED <<poolVars, arg, rangeIdx, peer, res, histVars>>
    /\ UNCHANGED <<ringVars, serverVars, clusterVars, clientVars>>

\* the network call returns
PeerGetReturn(t) ==
    /\ pc[t] = "PeerGet"
    /\ pc' = [pc EXCEPT ![t] = "idle"]
    /\ res' = [res EXCEPT ![t] = NoResult]
    /\ UNCHANGED <<poolVars, arg, rangeIdx, peer, histVars>>
    /\ UNCHANGED <<ringVars, serverVars, clusterVars, clientVars>>

\* a thread serving a request is in ServeHTTP's group.Get(key), a call into
\* local storage; ServeHTTP never locks p.mu
GroupGetCall(t) ==
    /\ pc[t] = "idle"
    /\ pc' = [pc EXCEPT ![t] = "GroupGet"]
    /\ UNCHANGED <<poolVars, arg, rangeIdx, peer, res, histVars>>
    /\ UNCHANGED <<ringVars, serverVars, clusterVars, clientVars>>

\* group.Get(key) returns and ServeHTTP answers
GroupGetReturn(t) ==
    /\ pc[t] = "GroupGet"
    /\ pc' = [pc EXCEPT ![t] = "idle"]
    /\ UNCHANGED <<poolVars, arg, rangeIdx, peer, res, histVars>>
    /\ UNCHANGED <<ringVars, serverVars, clusterVars, clientVars>>

-----------------------------------------------------------------------------
(* Claims on the coordinator's routing face *)

\* the ring of the coordinator, when it has one
HasRing == peers # Nil

\* no peer is registered: Set was never called, or last called with no node
NoPeerRegistered == peers = Nil \/ Len(Deref(peers).keys) = 0

\* thread t's PickPeer is about to return normally (it still holds the lock)
Returning(t) == pc[t] = "PickReturn"

\* thread t is inside Set's critical section with work left to do
MidSet(t) ==
    \/ pc[t] \in {"SetNew", "SetAdd", "SetMake"}
    \/ pc[t] = "SetPut" /\ rangeIdx[t] <= Len(arg[t])

\* C4: whenever the ring resolves the key to self, PickPeer returns
\* found = false and no Peer Client.
C4_SelfExclusion ==
    \A t \in Threads :
        Returning(t) /\ HasRing /\ Get(Deref(peers), arg[t]) = self =>
            res[t].ok = FALSE /\ res[t].getter = Nil

\* C4 witness: self is among the nodes given to Set, the ring resolves the
\* key to self, and PickPeer returns not-found.
C4_Witness ==
    \E t \in Threads :
        /\ Returning(t)
        /\ {<<"A">>, <<"B">>} \subseteq Range(lastSet)
        /\ self \in Range(lastSet)
        /\ Get(Deref(peers), arg[t]) = self
        /\ res[t].ok = FALSE

\* C5: whenever no peer is registered (a fresh coordinator, or Set called
\* with no node), PickPeer returns found = false, without error or crash.
C5_NotFoundWithoutPeers ==
    \A t \in Threads :
        pc[t] \in {"PickReturn", "PickPanic"} /\ NoPeerRegistered =>
            /\ res[t].panicked = FALSE
            /\ res[t].done /\ res[t].ok = FALSE /\ res[t].getter = Nil

\* what Set(list) alone leaves on a fresh coordinator
RECURSIVE PutAll(_, _, _)
PutAll(getters, list, i) ==
    IF i > Len(list) THEN getters
    ELSE PutAll([getters EXCEPT
                   !.entries = MapPut(@, list[i], NewGetter(list[i], defaultBasePath))],
                list, i + 1)

SetAlone ==
    [list \in PeerLists |->
        [peers       |-> Ptr(Add(New(defaultReplicate, NilFn), list)),
         httpGetters |-> PutAll(MakeGetters, list, 1)]]

\* what PickPeer(key) returns after Set(list) alone
PickAlone(list, key) ==
    LET node == Get(Deref(SetAlone[list].peers), key)
    IN  IF node # <<>> /\ node # self
        THEN [done |-> TRUE, getter |-> GetterOf(SetAlone[list].httpGetters, node),
              ok |-> TRUE, panicked |-> FALSE]
        ELSE [done |-> TRUE, getter |-> Nil, ok |-> FALSE, panicked |-> FALSE]

\* C6: after any sequence of Set calls the ring, the client map and every
\* PickPeer result are those of the last Set call alone on a fresh
\* coordinator; a found node is always one of the last list.
C6_SetReplaces ==
    (HasRing /\ \A t \in Threads : ~MidSet(t)) =>
        /\ peers = SetAlone[lastSet].peers
        /\ httpGetters = SetAlone[lastSet].httpGetters
        /\ \A t \in Threads :
             Returning(t) =>
                /\ res[t] = PickAlone(lastSet, arg[t])
                /\ res[t].ok => peer[t] \in Range(lastSet)

\* C6 witness: a second Set with a shorter list is complete, and a key that
\* another node owned before is now answered not-found.
C6_Witness ==
    \E t \in Threads :
        /\ Returning(t)
        /\ sets = 2
        /\ lastSet = <<self>>
        /\ \A u \in Threads : ~MidSet(u)
        /\ res[t].ok = FALSE
        /\ \E list \in PeerLists : PickAlone(list, arg[t]).ok

\* C7: a PickPeer reads the ring and the client map of one Set call, and
\* never a ring whose Add is still to come.
C7_OneGeneration ==
    \A t \in Threads :
        /\ pc[t] \in {"PickTest", "PickReturn"} => seen[t].ringFull
        /\ seen[t].readMap => seen[t].map = seen[t].ring

\* C7 witness: a PickPeer read the ring and the client map of the second Set
\* while the other thread waits for the lock with a Set of its own.
C7_Witness ==
    \E t, u \in Threads :
        /\ Returning(t)
        /\ seen[t].readMap /\ seen[t].ring = 2 /\ seen[t].map = 2
        /\ pc[u] = "SetLock"

\* where a thread stands inside PickPeer
PickStages == {"PickLock", "PickGet", "PickTest", "PickReturn", "PickPanic"}

\* thread t takes a step of its PickPeer call
PickStep(t) == pc[t] \in PickStages /\ pc'[t] # pc[t]

\* C13: Get changes neither the point list nor the point-to-node mapping and
\* PickPeer changes neither the ring nor the Peer Client map: no step of a
\* PickPeer call changes them, and the node a Get returned is the node the
\* ring returns for the same key when asked again.
C13_GetIsPure ==
    /\ [][\A t \in Threads :
            PickStep(t) => peers' = peers /\ httpGetters' = httpGetters]_vars
    /\ [](\A t \in Threads :
            pc[t] \in {"PickTest", "PickReturn"} =>
                peer[t] = Get(Deref(peers), arg[t]))

\* a PickPeer has found a peer for a key on the ring of two nodes, and the
\* other thread is about to ask for the same key
C13_Witness ==
    \E t, u \in Threads :
        /\ Returning(t) /\ res[t].ok
        /\ Len(Deref(peers).keys) = 2 * defaultReplicate
        /\ pc[u] = "PickLock" /\ arg[u] = arg[t]

\* C17: whenever PickPeer returns found = true, the Peer Client it returns is
\* not nil and its base address is the node the ring resolves the key to,
\* followed by the path prefix; the node is one of the last list given to Set.
C17_ClientOfOwner ==
    \A t \in Threads :
        Returning(t) /\ res[t].ok =>
            /\ res[t].getter # Nil
            /\ Deref(res[t].getter).baseURL =
                   Get(Deref(peers), arg[t]) \o defaultBasePath
            /\ Get(Deref(peers), arg[t]) \in Range(lastSet)

\* after a second Set, whose list names node B twice, a PickPeer on node A
\* returns the client of B
C17_Witness ==
    \E t \in Threads :
        /\ Returning(t) /\ res[t].ok
        /\ sets = 2
        /\ lastSet = <<<<"B">>, <<"B">>>>
        /\ self = <<"A">>
        /\ Deref(res[t].getter).baseURL = <<"B">> \o defaultBasePath

\* thread t is in a blocking call: a Peer Client's network call, or the
\* group's get
Blocking(t) == pc[t] \in {"PeerGet", "GroupGet"}

\* thread t is inside the critical section of Set or PickPeer
InCritical(t) ==
    pc[t] \in {"SetNew", "SetAdd", "SetMake", "SetPut", "PickGet", "PickTest",
               "PickReturn", "PickPanic"}

\* C15: no thread holds the coordinator lock while it is in a blocking call:
\* the holder of the lock is inside Set or PickPeer, which make no such call;
\* a thread in a Peer Client's network call or in the group's get does not
\* hold the lock, and the Peer Client PickPeer returned is used only once
\* PickPeer has released it.
C15_NoLockWhileBlocking ==
    \A t \in Threads :
        /\ mu = t => InCritical(t)
        /\ Blocking(t) => mu # t
        /\ pc[t] \in {"Picked", "PeerGet"} =>
              mu # t /\ res[t].ok /\ res[t].getter # Nil

\* one thread is in the network call of the Peer Client it was given while
\* the other is inside Set with the lock
C15_Witness ==
    \E t, u \in Threads :
        /\ pc[t] = "PeerGet"
        /\ pc[u] = "SetAdd" /\ mu = u

\* thread t waits in p.mu.Lock()
Waiting(t) == pc[t] \in {"SetLock", "PickLock"}

\* C20: under fair scheduling every thread that holds the coordinator lock
\* frees it, also a PickPeer that panics, and every thread that waits for the
\* lock in Set or PickPeer gets it and leaves its call.
C20_LockReleased ==
    \A t \in Threads :
        /\ (mu = t) ~> (mu # t)
        /\ Waiting(t) ~> (mu = t)
        /\ Waiting(t) ~> (pc[t] \notin PickStages /\ ~Waiting(t) /\ ~MidSet(t)
                            /\ mu # t)

\* a PickPeer has panicked with the lock held while the other thread waits
\* for the lock in Set
C20_Witness ==
    \E t, u \in Threads :
        /\ pc[t] = "PickPanic" /\ mu = t
        /\ pc[u] = "SetLock"

-----------------------------------------------------------------------------
(* package cache: HTTPPool, the server face *)

\* the group names a registry may hold, and the values a group may return
GroupNames == {<<"g">>, <<"h">>}

Values == {<<>>, <<7>>, <<0, 255>>}

\* the paths of the requests: with the prefix or another one, and a remainder
\* of no, one, two or three segments
Remainders ==
    { <<>>,
      <<"g">>,
      <<"g", "/">>,
      <<"g", "/", "k">>,
      <<"h", "/", "k">>,
      <<"/", "k">>,
      <<"g", "/", "a", "/", "b">>,
      <<"g", "/", "a", "/", "b", "/", "c">> }

Paths ==
    {prefix \o rest : prefix \in {defaultBasePath, <<"/", "x", "/">>},
                      rest \in Remainders}
        \cup {<<"/", "_", "c">>}

\* a prefix test that every path passes
AnyPrefix(s, prefix) == TRUE

\* strings.HasPrefix(s, prefix)
HasPrefix(s, prefix) ==
    Len(s) >= Len(prefix) /\ SubSeq(s, 1, Len(prefix)) = prefix

\* s[n:]
SliceFrom(s, n) == SubSeq(s, n + 1, Len(s))

\* strings.Index(s, sep) for a one-character sep: the index from 0, or -1
IndexOf(s, sep) ==
    IF \E i \in 1..Len(s) : s[i] = sep
    THEN (CHOOSE i \in 1..Len(s) : s[i] = sep /\ \A j \in 1..(i - 1) : s[j] # sep) - 1
    ELSE -1

\* strings.Split(s, sep): cut at every separator
RECURSIVE SplitAll(_, _, _)
SplitAll(s, sep, n) ==
    LET i == IndexOf(s, sep)
    IN  IF i < 0 THEN <<s>>
        ELSE <<SubSeq(s, 1, i)>> \o SplitAll(SliceFrom(s, i + 1), sep, n)

\* strings.SplitN(s, sep, n) for n > 0: at most n substrings, the last one the
\* unsplit remainder
RECURSIVE SplitN(_, _, _)
SplitN(s, sep, n) ==
    LET i == IndexOf(s, sep)
    IN  IF n = 1 \/ i < 0 THEN <<s>>
        ELSE <<SubSeq(s, 1, i)>> \o SplitN(SliceFrom(s, i + 1), sep, n - 1)

\* GetGroup(name): the group, or nil
GetGroup(name) == IF name \in registry THEN Ptr(name) ELSE Nil

\* the nil check that is never true
NeverNil(group) == FALSE

\* group == nil
GroupIsNil(group) == group = Nil

\* what group.Get(key) may return: an error, or a value
GetOutcomes ==
    {[err |-> TRUE, value |-> <<>>]} \cup {[err |-> FALSE, value |-> v] : v \in Values}

\* a base-128 varint
RECURSIVE Varint(_)
Varint(n) ==
    IF n < 128 THEN <<n>> ELSE <<128 + (n % 128)>> \o Varint(n \div 128)

\* proto.Marshal(&pb.Response{Value: value}): field 1, length-delimited; an
\* empty value is left out
Marshal(value) ==
    IF value = <<>> THEN <<>> ELSE <<10>> \o Varint(Len(value)) \o value

\* the varint that starts at body[i]: its value and the index after it
RECURSIVE ReadVarint(_, _)
ReadVarint(body, i) ==
    IF i > Len(body) THEN [ok |-> FALSE, val |-> 0, next |-> i]
    ELSE IF body[i] < 128 THEN [ok |-> TRUE, val |-> body[i], next |-> i + 1]
    ELSE LET rest == ReadVarint(body, i + 1)
         IN  [ok |-> rest.ok, val |-> (body[i] - 128) + (128 * rest.val),
              next |-> rest.next]

\* proto.Unmarshal(body, out) for a body Marshal wrote: out.Value
Unmarshal(body) ==
    IF body = <<>> THEN [ok |-> TRUE, value |-> <<>>]
    ELSE IF body[1] # 10 THEN [ok |-> FALSE, value |-> <<>>]
    ELSE LET n == ReadVarint(body, 2)
         IN  IF n.ok /\ n.next + n.val = Len(body) + 1
             THEN [ok |-> TRUE, value |-> SubSeq(body, n.next, Len(body))]
             ELSE [ok |-> FALSE, value |-> <<>>]

StatusOK == 200
StatusBadRequest == 400
StatusNotFound == 404
StatusInternalServerError == 500

NoFrame ==
    [parts |-> <<>>, groupName |-> <<>>, key |-> <<>>, group |-> Nil,
     view |-> <<>>, body |-> <<>>]

\* nothing written to w yet
NoResp == [status |-> 0, body |-> <<>>, contentType |-> "", writes |-> 0]

NoTrace ==
    [split |-> FALSE, consulted |-> FALSE, invoked |-> FALSE,
     getFailed |-> FALSE, marshalFailed |-> FALSE, value |-> <<>>]

\* http.Error(w, msg, code)
HttpError(w, msg, code) ==
    [status |-> code, body |-> msg, contentType |-> "text/plain; charset=utf-8",
     writes |-> w.writes + 1]

\* w.Header().Set("Content-Type", "application/octet-stream"); w.Write(body)
WriteBody(w, body) ==
    [status |-> StatusOK, body |-> body,
     contentType |-> "application/octet-stream", writes |-> w.writes + 1]

ServerInit ==
    /\ registry \in SUBSET GroupNames
    /\ spc = "idle"
    /\ path = <<>>
    /\ frame = NoFrame
    /\ resp = NoResp
    /\ trace = NoTrace
    /\ crashed = FALSE

\* the server hands a request to p.ServeHTTP(w, r)
ServeStart ==
    /\ spc = "idle"
    /\ path' \in Paths
    /\ spc' = "prefix"
    /\ UNCHANGED <<registry, frame, resp, trace, crashed>>
    /\ UNCHANGED <<ringVars, coordVars, clusterVars, clientVars>>

\* if !strings.HasPrefix(r.URL.Path, p.basePath) { panic(...) }; p.Log(...)
ServePrefix ==
    /\ spc = "prefix"
    /\ IF ~HasPrefix(path, defaultBasePath)
       THEN spc' = "panicked" /\ crashed' = TRUE
       ELSE spc' = "split" /\ UNCHANGED crashed
    /\ UNCHANGED <<registry, path, frame, resp, trace>>
    /\ UNCHANGED <<ringVars, coordVars, clusterVars, clientVars>>

\* parts := strings.SplitN(r.URL.Path[len(p.basePath):], "/", 2)
\* if len(parts) != 2 { http.Error(w, "bad request", 400); return }
ServeSplit ==
    /\ spc = "split"
    /\ LET parts == SplitN(SliceFrom(path, Len(defaultBasePath)), "/", 2)
       IN  /\ trace' = [trace EXCEPT !.split = TRUE]
           /\ IF Len(parts) # 2
              THEN /\ resp' = HttpError(resp, "bad request", StatusBadRequest)
                   /\ frame' = [frame EXCEPT !.parts = parts]
                   /\ spc' = "done"
              ELSE /\ frame' = [frame EXCEPT !.parts = parts,
                                             !.groupName = parts[1],
                                             !.key = parts[2]]
                   /\ spc' = "group"
                   /\ UNCHANGED resp
    /\ UNCHANGED <<registry, path, crashed>>
    /\ UNCHANGED <<ringVars, coordVars, clusterVars, clientVars>>

\* group := GetGroup(groupName)
\* if group == nil { http.Error(w, "no such group: "+groupName, 404); return }
ServeGroup ==
    /\ spc = "group"
    /\ LET group == GetGroup(frame.groupName)
       IN  /\ trace' = [trace EXCEPT !.consulted = TRUE]
           /\ frame' = [frame EXCEPT !.group = group]
           /\ IF GroupIsNil(group)
              THEN /\ resp' = HttpError(resp, "no such group", StatusNotFound)
                   /\ spc' = "done"
              ELSE /\ spc' = "get"
                   /\ UNCHANGED resp
    /\ UNCHANGED <<registry, path, crashed>>
    /\ UNCHANGED <<ringVars, coordVars, clusterVars, clientVars>>

\* view, err := group.Get(key)
\* if err != nil { http.Error(w, err.Error(), 500); return }
\* (a nil group would be dereferenced by Get: a panic)
ServeGet ==
    /\ spc = "get"
    /\ IF frame.group = Nil
       THEN /\ spc' = "panicked"
            /\ crashed' = TRUE
            /\ UNCHANGED <<frame, resp, trace>>
       ELSE /\ \E out \in GetOutcomes :
                 /\ trace' = [trace EXCEPT !.invoked = TRUE, !.getFailed = out.err,
                                           !.value = out.value]
                 /\ IF out.err
                    THEN /\ resp' = HttpError(resp, "err.Error()",
                                              StatusInternalServerError)
                         /\ spc' = "done"
                         /\ UNCHANGED frame
                    ELSE /\ frame' = [frame EXCEPT !.view = out.value]
                         /\ spc' = "marshal"
                         /\ UNCHANGED resp
            /\ UNCHANGED crashed
    /\ UNCHANGED <<registry, path>>
    /\ UNCHANGED <<ringVars, coordVars, clusterVars, clientVars>>

\* body, err := proto.Marshal(&pb.Response{Value: view.ByteSlice()})
\* (ByteSlice hands out a copy of the view's bytes)
\* if err != nil { http.Error(w, err.Error(), 500); return }
ServeMarshal ==
    /\ spc = "marshal"
    /\ \E failed \in BOOLEAN :
         /\ trace' = [trace EXCEPT !.marshalFailed = failed]
         /\ IF failed
            THEN /\ resp' = HttpError(resp, "err.Error()", StatusInternalServerError)
                 /\ spc' = "done"
                 /\ UNCHANGED frame
            ELSE /\ frame' = [frame EXCEPT !.body = Marshal(frame.view)]
                 /\ spc' = "write"
                 /\ UNCHANGED resp
    /\ UNCHANGED <<registry, path, crashed>>
    /\ UNCHANGED <<ringVars, coordVars, clusterVars, clientVars>>

\* w.Header().Set("Content-Type", "application/octet-stream"); w.Write(body)
ServeWrite ==
    /\ spc = "write"
    /\ resp' = WriteBody(resp, frame.body)
    /\ spc' = "done"
    /\ UNCHANGED <<registry, path, frame, trace, crashed>>
    /\ UNCHANGED <<ringVars, coordVars, clusterVars, clientVars>>

\* ServeHTTP returns, or its panic unwinds into the server, which recovers
\* it for this request; the next request can be served
ServeReturn ==
    /\ spc \in {"done", "panicked"}
    /\ spc' = "idle"
    /\ path' = <<>>
    /\ frame' = NoFrame
    /\ resp' = NoResp
    /\ trace' = NoTrace
    /\ UNCHANGED <<registry, crashed>>
    /\ UNCHANGED <<ringVars, coordVars, clusterVars, clientVars>>

-----------------------------------------------------------------------------
(* The server face: claims *)

\* the request being served carries the prefix, character by character
UnderPrefix ==
    /\ Len(path) >= Len(defaultBasePath)
    /\ \A i \in 1..Len(defaultBasePath) : path[i] = defaultBasePath[i]

\* what follows the prefix in the request being served
Remainder == SliceFrom(path, Len(defaultBasePath))

\* the number of '/'-separated segments of s
SegmentCount(s) == Cardinality({i \in 1..Len(s) : s[i] = "/"}) + 1

\* a request is being served
Serving == spc # "idle"

\* the handler has returned normally
Answered == spc = "done"

\* the request never reached the registry or a group's get
NotLookedUp == ~trace.consulted /\ ~trace.invoked

\* C8 as stated: every request under the prefix whose remainder does not have
\* exactly two '/'-separated segments, one segment or three and more, is
\* answered with 400 and reaches neither the group registry nor a group's get.
C8_RejectsOtherSegmentCounts ==
    (Serving /\ UnderPrefix /\ SegmentCount(Remainder) # 2) =>
        /\ NotLookedUp
        /\ trace.split => Answered /\ resp.status = StatusBadRequest

\* C8 as the code has it: a remainder without '/' (one segment) is answered
\* with 400 and reaches neither the group registry nor a group's get; a
\* remainder with one '/' or more is cut at its first '/' into the group
\* name and the key, which keeps every later '/', and is not answered 400.
C8_RejectsOneSegment ==
    (Serving /\ UnderPrefix) =>
        LET i == IndexOf(Remainder, "/")
        IN  IF i < 0
            THEN /\ NotLookedUp
                 /\ trace.split => Answered /\ resp.status = StatusBadRequest
            ELSE trace.split =>
                    /\ resp.status # StatusBadRequest
                    /\ frame.groupName = SubSeq(Remainder, 1, i)
                    /\ frame.key = SliceFrom(Remainder, i + 1)

\* a remainder of three segments has been split, its key is "a/b", and the
\* group's get has answered for it
C8_Witness ==
    /\ UnderPrefix /\ SegmentCount(Remainder) = 3
    /\ frame.key = <<"a", "/", "b">>
    /\ Answered /\ resp.status = StatusOK

\* the request under the prefix is well formed: it was split in two
WellFormed == Serving /\ UnderPrefix /\ trace.split /\ Len(frame.parts) = 2

\* C9: a well-formed request under the prefix gets exactly one answer: 404
\* when the registry has no such group, and then the group's get is not
\* invoked; else 500 when the group's get or the serialization fails; else
\* 200, binary content type, with a body that decodes to exactly the bytes
\* the group's get returned.
C9_OutcomePrecedence ==
    WellFormed =>
        /\ resp.writes <= 1
        /\ spc # "panicked"
        /\ trace.invoked => frame.groupName \in registry
        /\ (trace.consulted /\ frame.groupName \notin registry) =>
              Answered /\ resp.status = StatusNotFound
        /\ Answered =>
              /\ resp.writes = 1
              /\ resp.status =
                    IF frame.groupName \notin registry THEN StatusNotFound
                    ELSE IF trace.getFailed \/ trace.marshalFailed
                         THEN StatusInternalServerError
                    ELSE StatusOK
              /\ resp.status = StatusOK =>
                    /\ resp.contentType = "application/octet-stream"
                    /\ Unmarshal(resp.body) = [ok |-> TRUE, value |-> trace.value]

\* a two-byte value of a registered group was served with 200
C9_Witness ==
    /\ WellFormed /\ Answered
    /\ SegmentCount(Remainder) = 2
    /\ resp.status = StatusOK /\ trace.value = <<0, 255>>

\* the coordinator's own state
PoolState == <<self, peers, httpGetters, mu>>

\* C10: a request whose path does not begin with the prefix ends in a panic
\* of that request: nothing is split, the registry is not consulted, no get
\* is invoked and nothing is written; the coordinator's state does not
\* change, and once the panic has unwound the next request can be served.
C10_BadPrefixHalts ==
    /\ [](Serving /\ ~UnderPrefix =>
            /\ spc \in {"prefix", "panicked"}
            /\ trace = NoTrace
            /\ resp = NoResp
            /\ frame = NoFrame)
    /\ [](spc = "panicked" => ENABLED ServeReturn)
    /\ [](crashed /\ ~Serving => ENABLED ServeStart)
    /\ [][~UnderPrefix' => PoolState' = PoolState]_vars

\* on a coordinator that has peers a request is answered with 200 after an
\* earlier request with another prefix panicked
C10_Witness == crashed /\ Answered /\ resp.status = StatusOK /\ HasRing

-----------------------------------------------------------------------------
(* A cluster of nodes: one lookup from its origin to the node that answers *)

\* the nodes of the cluster; each runs an HTTPPool of its own
ClusterNodes == PeerIds

MaxHops == 3

\* the HTTPPool of node n, at rest after Set(views[n]...)
PoolOf(n) ==
    [self |-> n, peers |-> SetAlone[views[n]].peers,
     httpGetters |-> SetAlone[views[n]].httpGetters]

\* p.PickPeer(key) on a pool at rest: the Peer Client and the found flag
PickPeerAt(pool, key) ==
    LET node == Get(Deref(pool.peers), key)
    IN  IF IsRemote(node, pool.self)
        THEN [getter |-> GetterOf(pool.httpGetters, node), ok |-> TRUE]
        ELSE [getter |-> Nil, ok |-> FALSE]

\* no peer is asked
NoPeer == [getter |-> Nil, ok |-> FALSE]

\* a server face that routes the key once more
ServeViaPeers(pool, key) == PickPeerAt(pool, key)

\* the peer ServeHTTP asks for the value: none, it calls GetGroup(groupName)
\* and group.Get(key) and answers with what they give
ServeAsks(pool, key) == NoPeer

\* the node an http.Get on a Peer Client's URL reaches: baseURL without the
\* path prefix
HostOf(baseURL) == SubSeq(baseURL, 1, Len(baseURL) - Len(defaultBasePath))

NoLookup ==
    [stage |-> "idle", key |-> <<>>, at |-> <<>>, chain |-> <<>>,
     getter |-> Nil, requests |-> 0, serverPicks |-> 0]

ClusterIdle ==
    /\ views = [n \in ClusterNodes |-> <<>>]
    /\ lookup = NoLookup

\* every node was given a peer list of its own: the rings need not agree
ClusterInit ==
    /\ views \in [ClusterNodes -> PeerLists]
    /\ lookup = NoLookup

\* a lookup of key misses in the group of node n
LookupStart ==
    /\ lookup.stage = "idle"
    /\ \E n \in ClusterNodes, key \in PickKeys :
         lookup' = [NoLookup EXCEPT !.stage = "route", !.key = key, !.at = n,
                                    !.chain = <<n>>]
    /\ UNCHANGED views
    /\ UNCHANGED <<ringVars, coordVars, serverVars, clientVars>>

\* the origin asks its routing face: PickPeer(key)
LookupRoute ==
    /\ lookup.stage = "route"
    /\ LET pick == PickPeerAt(PoolOf(lookup.at), lookup.key)
       IN  lookup' = [lookup EXCEPT
                        !.stage = IF pick.ok THEN "fetch" ELSE "local",
                        !.getter = pick.getter]
    /\ UNCHANGED views
    /\ UNCHANGED <<ringVars, coordVars, serverVars, clientVars>>

\* the Peer Client's http.Get: one request from node to node
LookupFetch ==
    /\ lookup.stage = "fetch"
    /\ lookup.requests < MaxHops
    /\ LET target == HostOf(Deref(lookup.getter).baseURL)
       IN  lookup' = [lookup EXCEPT !.stage = "serve", !.at = target,
                                    !.chain = Append(@, target),
                                    !.requests = @ + 1, !.getter = Nil]
    /\ UNCHANGED views
    /\ UNCHANGED <<ringVars, coordVars, serverVars, clientVars>>

\* ServeHTTP on the node the request reached
LookupServe ==
    /\ lookup.stage = "serve"
    /\ LET ask == ServeAsks(PoolOf(lookup.at), lookup.key)
       IN  IF ask.ok
           THEN lookup' = [lookup EXCEPT !.stage = "fetch", !.getter = ask.getter,
                                         !.serverPicks = @ + 1]
           ELSE lookup' = [lookup EXCEPT !.stage = "answered"]
    /\ UNCHANGED views
    /\ UNCHANGED <<ringVars, coordVars, serverVars, clientVars>>

\* the lookup ends: answered by the peer, by the origin itself, or given up
LookupEnd ==
    /\ \/ lookup.stage \in {"answered", "local"}
       \/ lookup.stage = "fetch" /\ lookup.requests >= MaxHops
    /\ lookup' = NoLookup
    /\ UNCHANGED views
    /\ UNCHANGED <<ringVars, coordVars, serverVars, clientVars>>

-----------------------------------------------------------------------------
(* package cache: httpGetter, the Peer Client *)

\* the group names and keys of the requests
RpcGroups == {<<"g">>, <<"a", "/", "b">>}

RpcKeys == {<<"k">>, <<"a", " ", "b">>, <<"a", "+", "b">>, <<"a", "/", "b">>,
            <<"a", "%", "b">>}

HexDigits ==
    <<"0", "1", "2", "3", "4", "5", "6", "7", "8", "9", "A", "B", "C", "D", "E", "F">>

\* the character of a byte
Chr(n) == Printable[n - 31]

\* the characters url.QueryEscape leaves alone: letters, digits, - _ . ~
Unreserved(c) ==
    \/ Ord(c) \in 48..57
    \/ Ord(c) \in 65..90
    \/ Ord(c) \in 97..122
    \/ c \in {"-", "_", ".", "~"}

\* url.QueryEscape(s): a space becomes +, every other reserved character %XX
RECURSIVE QueryEscape(_)
QueryEscape(s) ==
    IF s = <<>> THEN <<>>
    ELSE LET c == Head(s)
             e == IF Unreserved(c) THEN <<c>>
                  ELSE IF c = " " THEN <<"+">>
                  ELSE <<"%", HexDigits[(Ord(c) \div 16) + 1],
                         HexDigits[(Ord(c) % 16) + 1]>>
         IN  e \o QueryEscape(Tail(s))

\* fmt.Sprintf("%v%v/%v", h.baseURL, url.QueryEscape(group), url.QueryEscape(key))
RequestURL(baseURL, group, key) ==
    baseURL \o QueryEscape(group) \o <<"/">> \o QueryEscape(key)

\* the value of a hexadecimal digit
HexVal(c) == (CHOOSE i \in 1..16 : HexDigits[i] = c) - 1

\* the percent-decoding of a request path, as net/url sets URL.Path: %XX
\* becomes the byte XX, and a + stays a +
RECURSIVE PathUnescape(_)
PathUnescape(s) ==
    IF s = <<>> THEN <<>>
    ELSE IF Head(s) = "%" /\ Len(s) >= 3
         THEN <<Chr((16 * HexVal(s[2])) + HexVal(s[3]))>>
                  \o PathUnescape(SubSeq(s, 4, Len(s)))
         ELSE <<Head(s)>> \o PathUnescape(Tail(s))

\* the node the Peer Client of the model talks to
RpcHost == <<"B">>

\* r.URL.Path on the server for a request the client sent to u
ServerPath(u) == PathUnescape(SliceFrom(u, Len(RpcHost)))

\* the bodies a 200 response may carry: encoded values, and bytes that are no
\* Response message
Bodies == {Marshal(v) : v \in Values} \cup {<<7>>, <<10, 5, 1>>}

\* what http.Get(u) may give: a transport error, or a response
HttpGetOutcomes ==
    {[failed |-> TRUE, status |-> 0, body |-> <<>>]}
        \cup {[failed |-> FALSE, status |-> StatusOK, body |-> b] : b \in Bodies}
        \cup {[failed |-> FALSE, status |-> c, body |-> <<98>>] :
                 c \in {StatusBadRequest, StatusNotFound, StatusInternalServerError}}

\* what ioutil.ReadAll(res.Body) may give: the whole body, or the bytes read
\* before the read failed, with the error
ReadAllOutcomes(body) ==
    {[failed |-> FALSE, bytes |-> body]}
        \cup {[failed |-> TRUE, bytes |-> SubSeq(body, 1, n)] : n \in 0..Len(body)}

\* the nil error
NilError == "nil"

NoRpc ==
    [stage |-> "idle", group |-> <<>>, key |-> <<>>, u |-> <<>>,
     status |-> 0, body |-> <<>>, bytes |-> <<>>, err |-> NilError,
     out |-> [Value |-> <<>>], ret |-> "pending",
     netFailed |-> FALSE, readFailed |-> FALSE, decodeFailed |-> FALSE,
     decoded |-> FALSE, path |-> <<>>]

ClientIdle == rpc = NoRpc

\* h.Get(in, out) is called; u := fmt.Sprintf(...)
ClientCall ==
    /\ rpc.stage = "idle"
    /\ \E group \in RpcGroups, key \in RpcKeys :
         rpc' = [NoRpc EXCEPT !.stage = "get", !.group = group, !.key = key,
                   !.u = RequestURL(RpcHost \o defaultBasePath, group, key)]
    /\ UNCHANGED <<ringVars, coordVars, serverVars, clusterVars>>

\* res, err := http.Get(u); if err != nil { return err }
ClientHttpGet ==
    /\ rpc.stage = "get"
    /\ \E o \in HttpGetOutcomes :
         IF o.failed
         THEN rpc' = [rpc EXCEPT !.stage = "returned", !.err = "transport",
                                 !.ret = "transport", !.netFailed = TRUE]
         ELSE rpc' = [rpc EXCEPT !.stage = "status", !.status = o.status,
                                 !.body = o.body, !.path = ServerPath(rpc.u)]
    /\ UNCHANGED <<ringVars, coordVars, serverVars, clusterVars>>

\* if res.StatusCode != http.StatusOK { return fmt.Errorf("server returned: ...") }
ClientStatus ==
    /\ rpc.stage = "status"
    /\ IF rpc.status # StatusOK
       THEN rpc' = [rpc EXCEPT !.stage = "returned", !.ret = "server returned"]
       ELSE rpc' = [rpc EXCEPT !.stage = "read"]
    /\ UNCHANGED <<ringVars, coordVars, serverVars, clusterVars>>

\* bytes, err := ioutil.ReadAll(res.Body)
ClientRead ==
    /\ rpc.stage = "read"
    /\ \E o \in ReadAllOutcomes(rpc.body) :
         rpc' = [rpc EXCEPT !.stage = "decode", !.bytes = o.bytes,
                   !.err = IF o.failed THEN "read" ELSE NilError,
                   !.readFailed = o.failed]
    /\ UNCHANGED <<ringVars, coordVars, serverVars, clusterVars>>

\* if err = proto.Unmarshal(bytes, out); err != nil {
\*     return fmt.Errorf("decoding response body: %v", err) }
\* (the assignment replaces the error ReadAll left in err)
ClientDecode ==
    /\ rpc.stage = "decode"
    /\ LET d == Unmarshal(rpc.bytes)
           err == IF d.ok THEN NilError ELSE "decode"
       IN  rpc' = [rpc EXCEPT
                     !.err = err,
                     !.out = [Value |-> d.value],
                     !.decoded = TRUE,
                     !.decodeFailed = ~d.ok,
                     !.stage = IF err # NilError THEN "returned" ELSE "check",
                     !.ret = IF err # NilError THEN "decoding response body" ELSE @]
    /\ UNCHANGED <<ringVars, coordVars, serverVars, clusterVars>>

\* if err != nil { return fmt.Errorf("reading response body: %v", err) }
\* return nil
ClientCheck ==
    /\ rpc.stage = "check"
    /\ rpc' = [rpc EXCEPT
                 !.stage = "returned",
                 !.ret = IF rpc.err # NilError THEN "reading response body"
                         ELSE NilError]
    /\ UNCHANGED <<ringVars, coordVars, serverVars, clusterVars>>

\* Get has returned (the deferred res.Body.Close() has run)
ClientReturn ==
    /\ rpc.stage = "returned"
    /\ rpc' = NoRpc
    /\ UNCHANGED <<ringVars, coordVars, serverVars, clusterVars>>

\* C12: Get returns the nil error only when the network call succeeded, the
\* status was 200, the whole body was read without error and the body
\* decoded; each of the four failures returns a non-nil error; a response
\* with another status is never decoded into the output message.
C12_NeverSwallows ==
    rpc.stage = "returned" =>
        /\ rpc.ret = NilError <=>
              /\ ~rpc.netFailed
              /\ rpc.status = StatusOK
              /\ ~rpc.readFailed
              /\ ~rpc.decodeFailed
        /\ rpc.status # StatusOK => ~rpc.decoded /\ rpc.out = NoRpc.out

\* the request of the call under way has reached the server
Delivered == rpc.stage \notin {"idle", "get"} /\ ~rpc.netFailed

\* what ServeHTTP makes of the path of the request: parts
ServedParts == SplitN(SliceFrom(rpc.path, Len(defaultBasePath)), "/", 2)

\* C19: for every group name and key, the path the Peer Client builds is
\* parsed by the server face, after the percent-decoding of the path, into
\* the same group name and the same key.
C19_PathRoundTrip ==
    Delivered =>
        /\ HasPrefix(rpc.path, defaultBasePath)
        /\ Len(ServedParts) = 2
        /\ ServedParts[1] = rpc.group
        /\ ServedParts[2] = rpc.key

-----------------------------------------------------------------------------
(* Specifications *)

\* the ring under test before consistenthash.New
RingIdle ==
    /\ m = New(1, [s \in LookupKeys |-> 0])
    /\ added = <<>>
    /\ got = NoGet
    /\ rebuilt = NoRebuild

\* the server with no request
ServerIdle ==
    /\ registry = {}
    /\ spc = "idle"
    /\ path = <<>>
    /\ frame = NoFrame
    /\ resp = NoResp
    /\ trace = NoTrace
    /\ crashed = FALSE

\* the ring alone
RingNext == RingAdd \/ RingGet \/ RingRebuild

InitRing == RingInit /\ CoordInit /\ self = <<"A">> /\ ServerIdle /\ ClusterIdle /\ ClientIdle

SpecRing == InitRing /\ [][RingNext]_vars

\* the coordinator under concurrent Set and PickPeer calls
Next ==
    \/ \E t \in Threads : SetCall(t)
    \/ \E t \in Threads : SetLock(t)
    \/ \E t \in Threads : SetNew(t)
    \/ \E t \in Threads : SetAdd(t)
    \/ \E t \in Threads : SetMake(t)
    \/ \E t \in Threads : SetPut(t)
    \/ \E t \in Threads : SetUnlock(t)
    \/ \E t \in Threads : PickCall(t)
    \/ \E t \in Threads : PickLock(t)
    \/ \E t \in Threads : PickGet(t)
    \/ \E t \in Threads : PickTest(t)
    \/ \E t \in Threads : PickUnlock(t)
    \/ \E t \in Threads : PeerGetCall(t)
    \/ \E t \in Threads : PeerGetReturn(t)
    \/ \E t \in Threads : GroupGetCall(t)
    \/ \E t \in Threads : GroupGetReturn(t)

Init == RingIdle /\ CoordInit /\ ServerIdle /\ ClusterIdle /\ ClientIdle

Spec == Init /\ [][Next]_vars

\* the scheduler runs every thread that can take a step inside Set or
\* PickPeer, and sync.Mutex hands the lock to a thread that keeps waiting.
\* SetAdd(t) is enabled exactly while t stands at it, so its weak fairness
\* is written as: t does not stand at it forever.
Fairness ==
    \A t \in Threads :
        /\ WF_vars(SetNew(t) \/ SetMake(t) \/ SetPut(t) \/ SetUnlock(t))
        /\ []<>(pc[t] # "SetAdd")
        /\ WF_vars(PickGet(t) \/ PickTest(t) \/ PickUnlock(t))
        /\ SF_vars(SetLock(t) \/ PickLock(t))

SpecFair == Init /\ [][Next]_vars /\ Fairness

\* a coordinator at rest: as NewHttpPool made it, or as one Set call left it
CoordSettled ==
    /\ self = <<"A">>
    /\ mu = Unlocked
    /\ pc = [t \in Threads |-> "idle"]
    /\ arg = [t \in Threads |-> <<>>]
    /\ rangeIdx = [t \in Threads |-> 0]
    /\ peer = [t \in Threads |-> <<>>]
    /\ res = [t \in Threads |-> NoResult]
    /\ gen = [t \in Threads |-> 0]
    /\ seen = [t \in Threads |-> NothingSeen]
    /\ \/ /\ peers = Nil
          /\ httpGetters = NilGetters
          /\ sets = 0
          /\ ringGen = [id |-> 0, full |-> FALSE]
          /\ mapGen = 0
          /\ lastSet = <<>>
       \/ \E list \in PeerLists :
             /\ peers = SetAlone[list].peers
             /\ httpGetters = SetAlone[list].httpGetters
             /\ sets = 1
             /\ ringGen = [id |-> 1, full |-> TRUE]
             /\ mapGen = 1
             /\ lastSet = list

\* the server face, one request after another
ServerNext ==
    \/ ServeStart \/ ServePrefix \/ ServeSplit \/ ServeGroup
    \/ ServeGet \/ ServeMarshal \/ ServeWrite \/ ServeReturn

InitServer == RingIdle /\ CoordSettled /\ ServerInit /\ ClusterIdle /\ ClientIdle

SpecServer == InitServer /\ [][ServerNext]_vars

\* a cluster whose nodes were configured one by one, serving lookups
InitCluster == RingIdle /\ CoordSettled /\ ServerIdle /\ ClusterInit /\ ClientIdle

ClusterNext ==
    LookupStart \/ LookupRoute \/ LookupFetch \/ LookupServe \/ LookupEnd

SpecCluster == InitCluster /\ [][ClusterNext]_vars

\* one Peer Client, one call after another
InitClient == RingIdle /\ CoordSettled /\ ServerIdle /\ ClusterIdle /\ ClientIdle

ClientNext ==
    \/ ClientCall \/ ClientHttpGet \/ ClientStatus \/ ClientRead
    \/ ClientDecode \/ ClientCheck \/ ClientReturn

SpecClient == InitClient /\ [][ClientNext]_vars

=============================================================================
